---- MODULE Spec2Model ----
(***************************************************************************)
(* Dynamic flag engine of the forensic CTF backend: answer hashing, flag   *)
(* minting and verification over time windows, user salt rotation and the  *)
(* submission handlers, over a PostgreSQL store (READ COMMITTED, row locks *)
(* taken by UPDATE, no version column on users).                           *)
(*                                                                         *)
(* Strings are sequences of atoms (one atom per character; a digest, a     *)
(* salt or a MAC body is one opaque atom).  SHA-256 and HMAC-SHA256 are    *)
(* modelled as collision-free symbolic functions, secrets.token_hex as a   *)
(* source of values never seen before.  Time is in seconds.                *)
(***************************************************************************)
EXTENDS Integers, Sequences, FiniteSets, TLC

VARIABLES
    now,                    \* wall clock, seconds
    users,                  \* users table, committed rows
    cases,                  \* cases table, committed rows
    submissions,            \* submissions table, committed rows in insertion order
    challenges,             \* challenges table
    challenge_submissions,  \* user_challenge_submissions table
    req,                    \* the requests in flight, one session each
    nextSalt,               \* how many values secrets.token_hex has handed out, plus one
    issued,                 \* history: the flags sent to clients
    salt_log,               \* history: per user, the salt rows committed so far
    verdict,                \* what the last step returned, if it was a verify_flag call
    error,                  \* the exception the last step raised to its caller, if any
    call,                   \* the last direct call of a method, with its result
    requests,               \* RateLimiter._requests: key -> list of timestamps
    granted                 \* history: per key, the instants is_allowed returned True

vars == <<now, users, cases, submissions, challenges, challenge_submissions, req,
          nextSalt, issued, salt_log, verdict, error, call, requests, granted>>

(* The state of the submission rate limiter *)
limiter == <<requests, granted>>

----------------------------------------------------------------------------
(* Bounds of the model *)

MaxSubmissions == 2
MaxChallengeSubmissions == 3
MaxSalt == 5
MaxRequestsPerMinute == 2

(* Instants the clock can show: both sides of window boundaries and of the *)
(* salt rotation threshold.                                                *)
TimePoints == {0, 3599, 3600, 7200, 10800, 86400, 86401, 90000}

Users == {"A", "B"}
Cases == {"c1"}
Reqs == {1, 2}
ChallengeIds == {"ch1", "ch2"}

(* Instants of calls to the rate limiter, around the edges of its window *)
LimiterTimes == {0, 1, 60, 61, 120}

(* Keys of the submission rate limiter: "user:<id>" *)
LimiterKeys == {<<"user:", u>> : u \in Users}

(* Case ids a client may name: the cases and an id no case has *)
RequestedCases == Cases \cup {"c0"}

(* Arguments of direct calls of CryptoService: texts over a small alphabet *)
(* with letters in both cases and whitespace, and identifiers.             *)
MaxTextLen == 3
MaxTruthLen == 1
Alphabet == {"g", "G", " ", "U+03A3", "U+03C3"}
Texts == UNION {[1..n -> Alphabet] : n \in 0..MaxTextLen}
Truths == UNION {[1..n -> Alphabet] : n \in 0..MaxTruthLen}
CallUsers == {"A", "B"}
CallCases == {"c1", "c2"}
CallWindows == {0, 1, 2}

(* Answers a client may send; the truth of c1 is "go". *)
Answers == { <<"g", "o">>, <<" ", "G", "o", " ">>, <<"n", "o">> }

----------------------------------------------------------------------------
(* Configuration *)

FLAG_EXPIRY_MINUTES == 60
FLAG_SALT_ROTATION_HOURS == 24
FLAG_PREFIX == <<"FORENSIC{">>
FLAG_SUFFIX == <<"}">>
FLAG_SECRET_KEY == <<"k">>

----------------------------------------------------------------------------
(* Python string primitives *)

Whitespace == {" ", "\t", "\n"}

UpperToLower == [c \in {"G", "O", "N"} |->
                   CASE c = "G" -> "g" [] c = "O" -> "o" [] c = "N" -> "n"]

RECURSIVE lstrip(_)
lstrip(s) ==
    IF s # <<>> /\ Head(s) \in Whitespace THEN lstrip(Tail(s)) ELSE s

RECURSIVE rstrip(_)
rstrip(s) ==
    IF s # <<>> /\ s[Len(s)] \in Whitespace
    THEN rstrip(SubSeq(s, 1, Len(s) - 1))
    ELSE s

strip(s) == rstrip(lstrip(s))

(* Characters with a case (Unicode property Cased).  A character outside *)
(* ASCII is the atom naming its code point.                              *)
Cased == {"g", "G", "o", "O", "n", "N", "U+03A3", "U+03C3", "U+03C2"}

(* str.lower(): capital sigma (U+03A3) becomes the final small sigma      *)
(* (U+03C2) after a cased character when no cased character follows, and *)
(* the medial small sigma (U+03C3) elsewhere                              *)
lower(s) ==
    [i \in 1..Len(s) |->
        IF s[i] \in DOMAIN UpperToLower THEN UpperToLower[s[i]]
        ELSE IF s[i] = "U+03A3"
        THEN IF /\ i > 1
                /\ s[i - 1] \in Cased
                /\ (i = Len(s) \/ s[i + 1] \notin Cased)
             THEN "U+03C2"
             ELSE "U+03C3"
        ELSE s[i]]

DigitChars == <<"0", "1", "2", "3", "4", "5", "6", "7", "8", "9">>

RECURSIVE str_nat(_)
str_nat(n) ==
    IF n < 10 THEN <<DigitChars[n + 1]>>
    ELSE str_nat(n \div 10) \o <<DigitChars[(n % 10) + 1]>>

(* str() of an int, as the f-string formats the time window *)
str_int(n) == IF n < 0 THEN <<"-">> \o str_nat(0 - n) ELSE str_nat(n)

(* str() of a UUID: one atom, never containing ":" *)
str_uuid(id) == <<id>>

(* hashlib.sha256(...).hexdigest(): a collision-free digest atom *)
sha256_hexdigest(s) == <<"sha256(" \o ToString(s) \o ")">>

(* base64.urlsafe_b64encode(hmac.new(key, msg, sha256).digest())[:32] *)
hmac_b64(key, msg) ==
    <<"hmac(" \o ToString(key) \o "," \o ToString(msg) \o ")">>

(* hmac.compare_digest *)
compare_digest(a, b) == a = b

(* secrets.token_hex(32): the k-th value drawn, distinct from all others *)
token_hex(k) == <<"salt" \o ToString(k)>>

----------------------------------------------------------------------------
(* CryptoService *)

get_time_window(t) == t \div (FLAG_EXPIRY_MINUTES * 60)

get_adjacent_time_windows(t) ==
    LET current == get_time_window(t)
    IN  <<current - 1, current, current + 1>>

(* Variant: the answer is trimmed but its case is kept *)
hash_semantic_truth_keeps_case(semantic_truth) ==
    sha256_hexdigest(strip(semantic_truth))

hash_semantic_truth(semantic_truth) ==
    LET normalized == lower(strip(semantic_truth))
    IN  sha256_hexdigest(normalized)

(* Variant: one flag per case and window, whoever asks *)
flag_message_static(user_id, case_id, semantic_truth_hash, user_flag_salt, time_window) ==
    case_id \o <<":">> \o semantic_truth_hash \o <<":">> \o str_int(time_window)

(* Variant: the case left out of the message *)
flag_message_no_case(user_id, case_id, semantic_truth_hash, user_flag_salt, time_window) ==
    user_id \o <<":">> \o semantic_truth_hash
            \o <<":">> \o user_flag_salt \o <<":">> \o str_int(time_window)

(* Variant: the user's salt left out of the message *)
flag_message_no_salt(user_id, case_id, semantic_truth_hash, user_flag_salt, time_window) ==
    user_id \o <<":">> \o case_id \o <<":">> \o semantic_truth_hash
            \o <<":">> \o str_int(time_window)

flag_message(user_id, case_id, semantic_truth_hash, user_flag_salt, time_window) ==
    user_id \o <<":">> \o case_id \o <<":">> \o semantic_truth_hash
            \o <<":">> \o user_flag_salt \o <<":">> \o str_int(time_window)

generate_flag(user_id, case_id, semantic_truth_hash, user_flag_salt, time_window) ==
    LET message == flag_message(user_id, case_id, semantic_truth_hash,
                                user_flag_salt, time_window)
        flag_value == hmac_b64(FLAG_SECRET_KEY, message)
    IN  FLAG_PREFIX \o flag_value \o FLAG_SUFFIX

(* Variants of verify_flag over other sets of windows.  They recompute the *)
(* message themselves so that they do not depend on generate_flag.         *)
expected_flag(user_id, case_id, semantic_truth_hash, user_flag_salt, w) ==
    FLAG_PREFIX
      \o hmac_b64(FLAG_SECRET_KEY,
                  user_id \o <<":">> \o case_id \o <<":">> \o semantic_truth_hash
                      \o <<":">> \o user_flag_salt \o <<":">> \o str_int(w))
      \o FLAG_SUFFIX

verify_flag_over(windows, submitted_flag, user_id, case_id, semantic_truth_hash, user_flag_salt) ==
    IF \E w \in windows :
           submitted_flag = expected_flag(user_id, case_id, semantic_truth_hash,
                                          user_flag_salt, w)
    THEN <<TRUE, "valid">>
    ELSE <<FALSE, "invalid_or_expired">>

(* Variant: the current and the next window *)
crypto_verify_flag_current_and_next(submitted_flag, user_id, case_id, semantic_truth_hash, user_flag_salt, t) ==
    verify_flag_over({get_time_window(t), get_time_window(t) + 1}, submitted_flag,
                     user_id, case_id, semantic_truth_hash, user_flag_salt)

(* Variant: the current window alone *)
crypto_verify_flag_current_only(submitted_flag, user_id, case_id, semantic_truth_hash, user_flag_salt, t) ==
    verify_flag_over({get_time_window(t)}, submitted_flag,
                     user_id, case_id, semantic_truth_hash, user_flag_salt)

(* Variant: all three adjacent windows *)
crypto_verify_flag_three_windows(submitted_flag, user_id, case_id, semantic_truth_hash, user_flag_salt, t) ==
    verify_flag_over({get_time_window(t) - 1, get_time_window(t),
                      get_time_window(t) + 1}, submitted_flag,
                     user_id, case_id, semantic_truth_hash, user_flag_salt)

crypto_verify_flag(submitted_flag, user_id, case_id, semantic_truth_hash, user_flag_salt, t) ==
    LET windows == get_adjacent_time_windows(t)
        prev_window == windows[1]
        curr_window == windows[2]
        expected_current == generate_flag(user_id, case_id, semantic_truth_hash,
                                          user_flag_salt, curr_window)
        expected_previous == generate_flag(user_id, case_id, semantic_truth_hash,
                                           user_flag_salt, prev_window)
    IN  IF compare_digest(submitted_flag, expected_current)
        THEN <<TRUE, "valid">>
        ELSE IF compare_digest(submitted_flag, expected_previous)
        THEN <<TRUE, "valid">>
        ELSE <<FALSE, "invalid_or_expired">>

(* The calls verify_flag makes, in order, each with the epoch it is for: *)
(* n is the current window, n-1 the previous one.  The method returns   *)
(* after the first comparison that succeeds.                            *)
verify_flag_operations(submitted_flag, user_id, case_id, semantic_truth_hash, user_flag_salt, t) ==
    LET windows == get_adjacent_time_windows(t)
        curr_window == windows[2]
        expected_current == generate_flag(user_id, case_id, semantic_truth_hash,
                                          user_flag_salt, curr_window)
        on_current == << [op |-> "generate_flag", epoch |-> "n"],
                         [op |-> "compare_digest", epoch |-> "n"] >>
        on_previous == << [op |-> "generate_flag", epoch |-> "n-1"],
                          [op |-> "compare_digest", epoch |-> "n-1"] >>
    IN  IF compare_digest(submitted_flag, expected_current)
        THEN on_current
        ELSE on_current \o on_previous

(* Variant: the submitted answer is hashed as it came *)
crypto_verify_answer_raw(submitted_answer, stored_semantic_truth_hash) ==
    compare_digest(sha256_hexdigest(submitted_answer), stored_semantic_truth_hash)

crypto_verify_answer(submitted_answer, stored_semantic_truth_hash) ==
    LET submitted_hash == hash_semantic_truth(submitted_answer)
    IN  compare_digest(submitted_hash, stored_semantic_truth_hash)

----------------------------------------------------------------------------
(* FlagEngine: the pure parts *)

combined_case_id(case_id, case_salt) == str_uuid(case_id) \o <<":">> \o case_salt

generate_flag_for_user(user_id, case_id, semantic_truth_hash, case_salt, user_flag_salt, t) ==
    generate_flag(str_uuid(user_id), combined_case_id(case_id, case_salt),
                  semantic_truth_hash, user_flag_salt, get_time_window(t))

verify_answer(submitted_answer, stored_semantic_truth_hash) ==
    crypto_verify_answer(submitted_answer, stored_semantic_truth_hash)

verify_flag(submitted_flag, user_id, case_id, semantic_truth_hash, case_salt, user_flag_salt, t) ==
    crypto_verify_flag(submitted_flag, str_uuid(user_id),
                       combined_case_id(case_id, case_salt),
                       semantic_truth_hash, user_flag_salt, t)

(* Variant: the salt is kept for two intervals *)
rotation_due_after_two_intervals(user, t) ==
    LET rotation_threshold == t - 2 * FLAG_SALT_ROTATION_HOURS * 3600
    IN  user.flag_salt_rotated_at < rotation_threshold

(* Variant: a salt exactly as old as the interval is rotated too *)
rotation_due_inclusive(user, t) ==
    LET rotation_threshold == t - FLAG_SALT_ROTATION_HOURS * 3600
    IN  user.flag_salt_rotated_at <= rotation_threshold

(* The test in maybe_rotate_user_salt *)
rotation_due(user, t) ==
    LET rotation_threshold == t - FLAG_SALT_ROTATION_HOURS * 3600
    IN  user.flag_salt_rotated_at < rotation_threshold

check_already_solved(rows, user_id, case_id) ==
    \E i \in 1..Len(rows) :
        /\ rows[i].user_id = user_id
        /\ rows[i].case_id = case_id
        /\ rows[i].is_correct

----------------------------------------------------------------------------
(* State *)

(* Optional[T]: <<>> is None, <<v>> is a value *)
None == <<>>
Some(v) == <<v>>

NoRow == [flag_salt |-> <<>>, flag_salt_rotated_at |-> 0]
NoCase == [semantic_truth_hash |-> <<>>, case_salt |-> <<>>, points |-> 0,
           is_active |-> FALSE]
NoResult == [is_correct |-> FALSE, message |-> "", flag |-> None, points |-> None]

(* A request slot with no request in it *)
IdleReq == [pc |-> "idle", user_id |-> "", case_id |-> "", answer |-> <<>>,
            user |-> NoRow, case |-> NoCase, dirty |-> FALSE, pending |-> <<>>,
            already_solved |-> FALSE, is_correct |-> FALSE, result |-> NoResult,
            minted_in |-> 0]

InFlight == {r \in Reqs : req[r].pc # "idle"}

(* The row of users is locked by a session that flushed an UPDATE of it *)
RowLockedByOther(r, user_id) ==
    \E o \in Reqs \ {r} : req[o].dirty /\ req[o].user_id = user_id

(* CHALLENGES as authored: the answer and the points *)
CHALLENGES ==
    [ch \in ChallengeIds |->
        IF ch = "ch1"
        THEN [semantic_truth |-> <<"g", "o">>, points |-> 75]
        ELSE [semantic_truth |-> <<"G", "o">>, points |-> 100]]

(* seed_challenges.py: the rows it inserts *)
seed_challenges ==
    [ch \in ChallengeIds |->
        [semantic_truth |-> CHALLENGES[ch].semantic_truth,
         semantic_truth_hash |-> sha256_hexdigest(CHALLENGES[ch].semantic_truth),
         points |-> CHALLENGES[ch].points,
         is_active |-> TRUE]]

StoreInit ==
    /\ users = [u \in Users |->
                  [flag_salt |-> token_hex(IF u = "A" THEN 1 ELSE 2),
                   flag_salt_rotated_at |-> 0]]
    /\ cases = [c \in Cases |->
                  [semantic_truth_hash |-> hash_semantic_truth(<<"g", "o">>),
                   case_salt |-> token_hex(3),
                   points |-> 100,
                   is_active |-> TRUE]]
    /\ nextSalt = 4
    /\ submissions = <<>>
    /\ challenges = seed_challenges
    /\ challenge_submissions = <<>>
    /\ req = [r \in Reqs |-> IdleReq]
    /\ issued = {}
    /\ salt_log = [u \in Users |-> <<users[u]>>]
    /\ verdict = None
    /\ error = None
    /\ call = None
    /\ requests = [k \in LimiterKeys |-> <<>>]
    /\ granted = [k \in LimiterKeys |-> <<>>]

Init ==
    /\ now = 0
    /\ StoreInit

----------------------------------------------------------------------------
(* The clock *)

Tick ==
    /\ \E t \in TimePoints : t > now /\ now' = t
    /\ verdict' = None
    /\ error' = None
    /\ call' = None
    /\ UNCHANGED <<users, cases, submissions, req, issued, nextSalt,
                   challenges, challenge_submissions, salt_log>>
    /\ UNCHANGED limiter

----------------------------------------------------------------------------
(* POST /submissions/submit, one action per stretch between two awaits *)

(* Variant: an inactive case is served like an active one *)
case_found_ignores_active(rows, case_id) == case_id \in DOMAIN rows

(* submit_answer: `not (not case or not case.is_active)` *)
case_found(rows, case_id) ==
    case_id \in DOMAIN rows /\ rows[case_id].is_active

(* get_current_user and get_case_by_id: the session reads the committed *)
(* rows; an unknown or inactive case ends the request with a 404.       *)
LoadRequest(r, user_id, case_id, answer) ==
    /\ req[r].pc = "idle"
    /\ Len(submissions) + Cardinality(InFlight) < MaxSubmissions
    /\ case_found(cases, case_id)
    /\ req' = [req EXCEPT ![r] =
                  [IdleReq EXCEPT !.pc = "loaded",
                                  !.user_id = user_id,
                                  !.case_id = case_id,
                                  !.answer = answer,
                                  !.user = users[user_id],
                                  !.case = cases[case_id]]]
    /\ verdict' = None
    /\ error' = None
    /\ call' = None
    /\ UNCHANGED <<now, users, cases, submissions, issued, nextSalt,
                   challenges, challenge_submissions, salt_log>>
    /\ UNCHANGED limiter

(* FlagEngine.maybe_rotate_user_salt: the flush sends the UPDATE, which *)
(* waits while another session holds the row; refresh reads it back.    *)
maybe_rotate_user_salt(r) ==
    /\ req[r].pc = "loaded"
    /\ IF rotation_due(req[r].user, now)
       THEN /\ ~RowLockedByOther(r, req[r].user_id)
            /\ nextSalt <= MaxSalt
            /\ req' = [req EXCEPT ![r].user =
                                      [flag_salt |-> token_hex(nextSalt),
                                       flag_salt_rotated_at |-> now],
                                  ![r].dirty = TRUE,
                                  ![r].pc = "rotated"]
            /\ nextSalt' = nextSalt + 1
       ELSE /\ req' = [req EXCEPT ![r].pc = "rotated"]
            /\ UNCHANGED nextSalt
    /\ verdict' = None
    /\ error' = None
    /\ call' = None
    /\ UNCHANGED <<now, users, cases, submissions, issued, challenges,
                   challenge_submissions, salt_log>>
    /\ UNCHANGED limiter

(* Variant: the lookup runs after the write of the current attempt *)
CheckAlreadySolved_after_record(r) ==
    /\ req[r].pc = "rotated"
    /\ LET current == [user_id |-> req[r].user_id,
                       case_id |-> req[r].case_id,
                       submitted_answer_hash |-> hash_semantic_truth(req[r].answer),
                       is_correct |-> verify_answer(req[r].answer,
                                                    req[r].case.semantic_truth_hash)]
       IN  req' = [req EXCEPT ![r].already_solved =
                                  check_already_solved(
                                      (submissions \o req[r].pending) \o <<current>>,
                                      req[r].user_id, req[r].case_id),
                              ![r].pc = "checked"]
    /\ verdict' = None
    /\ error' = None
    /\ call' = None
    /\ UNCHANGED <<now, users, cases, submissions, issued, nextSalt,
                   challenges, challenge_submissions, salt_log>>
    /\ UNCHANGED limiter

(* FlagEngine._check_already_solved: committed rows and the session's own *)
CheckAlreadySolved(r) ==
    /\ req[r].pc = "rotated"
    /\ req' = [req EXCEPT ![r].already_solved =
                              check_already_solved(submissions \o req[r].pending,
                                                   req[r].user_id, req[r].case_id),
                          ![r].pc = "checked"]
    /\ verdict' = None
    /\ error' = None
    /\ call' = None
    /\ UNCHANGED <<now, users, cases, submissions, issued, nextSalt,
                   challenges, challenge_submissions, salt_log>>
    /\ UNCHANGED limiter

(* Variant: only a correct answer leaves a record *)
RecordSubmission_only_correct(r) ==
    /\ req[r].pc = "checked"
    /\ LET is_correct == verify_answer(req[r].answer,
                                       req[r].case.semantic_truth_hash)
           submission == [user_id |-> req[r].user_id,
                          case_id |-> req[r].case_id,
                          submitted_answer_hash |->
                              hash_semantic_truth(req[r].answer),
                          is_correct |-> is_correct]
       IN  req' = [req EXCEPT ![r].is_correct = is_correct,
                              ![r].pending =
                                  IF is_correct THEN Append(@, submission) ELSE @,
                              ![r].pc = "recorded"]
    /\ verdict' = None
    /\ error' = None
    /\ call' = None
    /\ UNCHANGED <<now, users, cases, submissions, issued, nextSalt,
                   challenges, challenge_submissions, salt_log>>
    /\ UNCHANGED limiter

(* verify_answer, hash of the answer, db.add(submission), flush *)
RecordSubmission(r) ==
    /\ req[r].pc = "checked"
    /\ LET is_correct == verify_answer(req[r].answer,
                                       req[r].case.semantic_truth_hash)
           submission == [user_id |-> req[r].user_id,
                          case_id |-> req[r].case_id,
                          submitted_answer_hash |->
                              hash_semantic_truth(req[r].answer),
                          is_correct |-> is_correct]
       IN  req' = [req EXCEPT ![r].is_correct = is_correct,
                              ![r].pending = Append(@, submission),
                              ![r].pc = "recorded"]
    /\ verdict' = None
    /\ error' = None
    /\ call' = None
    /\ UNCHANGED <<now, users, cases, submissions, issued, nextSalt,
                   challenges, challenge_submissions, salt_log>>
    /\ UNCHANGED limiter

(* Variant: a flag is handed out whatever the verdict *)
process_result_flag_always(is_correct, already_solved, flag, points) ==
    IF is_correct
    THEN [is_correct |-> TRUE,
          message |-> "Correct! Here is your unique flag. It expires in 60 minutes.",
          flag |-> Some(flag), points |-> Some(IF already_solved THEN 0 ELSE points)]
    ELSE [is_correct |-> FALSE,
          message |-> "Incorrect. Continue your investigation.",
          flag |-> Some(flag), points |-> None]

(* Variant: a wrong answer on a solved case gets a message of its own *)
process_result_tells_solved(is_correct, already_solved, flag, points) ==
    IF is_correct
    THEN [is_correct |-> TRUE,
          message |-> "Correct! Here is your unique flag. It expires in 60 minutes.",
          flag |-> Some(flag), points |-> Some(IF already_solved THEN 0 ELSE points)]
    ELSE [is_correct |-> FALSE,
          message |-> IF already_solved
                      THEN "Incorrect. You have already solved this case."
                      ELSE "Incorrect. Continue your investigation.",
          flag |-> None, points |-> None]

(* Variant: a solved case gets no second flag *)
process_result_one_flag_per_case(is_correct, already_solved, flag, points) ==
    IF is_correct
    THEN IF already_solved
         THEN [is_correct |-> TRUE,
               message |-> "Correct! You've already solved this case. Flag expires in 60 minutes.",
               flag |-> None, points |-> Some(0)]
         ELSE [is_correct |-> TRUE,
               message |-> "Correct! Here is your unique flag. It expires in 60 minutes.",
               flag |-> Some(flag), points |-> Some(points)]
    ELSE [is_correct |-> FALSE,
          message |-> "Incorrect. Continue your investigation.",
          flag |-> None, points |-> None]

(* The tuple process_submission returns: (is_correct, message, flag, points) *)
process_result(is_correct, already_solved, flag, points) ==
    IF is_correct
    THEN IF already_solved
         THEN [is_correct |-> TRUE,
               message |-> "Correct! You've already solved this case. Flag expires in 60 minutes.",
               flag |-> Some(flag), points |-> Some(0)]
         ELSE [is_correct |-> TRUE,
               message |-> "Correct! Here is your unique flag. It expires in 60 minutes.",
               flag |-> Some(flag), points |-> Some(points)]
    ELSE [is_correct |-> FALSE,
          message |-> "Incorrect. Continue your investigation.",
          flag |-> None, points |-> None]

(* The rest of process_submission: mint when correct, build the result *)
ReturnResult(r) ==
    /\ req[r].pc = "recorded"
    /\ LET flag == generate_flag_for_user(req[r].user_id, req[r].case_id,
                                          req[r].case.semantic_truth_hash,
                                          req[r].case.case_salt,
                                          req[r].user.flag_salt, now)
       IN  req' = [req EXCEPT ![r].result =
                                  process_result(req[r].is_correct,
                                                 req[r].already_solved,
                                                 flag, req[r].case.points),
                              ![r].minted_in = get_time_window(now),
                              ![r].pc = "returned"]
    /\ verdict' = None
    /\ error' = None
    /\ call' = None
    /\ UNCHANGED <<now, users, cases, submissions, issued, nextSalt,
                   challenges, challenge_submissions, salt_log>>
    /\ UNCHANGED limiter

(* What the caller holds of a response that carried a flag *)
IssuedFlag(r) ==
    [flag |-> req[r].result.flag[1],
     user_id |-> req[r].user_id,
     case_id |-> req[r].case_id,
     semantic_truth_hash |-> req[r].case.semantic_truth_hash,
     case_salt |-> req[r].case.case_salt,
     user_flag_salt |-> req[r].user.flag_salt,
     time_window |-> req[r].minted_in]

(* db.commit() in submit_answer, then the response goes out *)
Commit(r) ==
    /\ req[r].pc = "returned"
    /\ users' = IF req[r].dirty
                THEN [users EXCEPT ![req[r].user_id] = req[r].user]
                ELSE users
    /\ salt_log' = IF req[r].dirty
                   THEN [salt_log EXCEPT ![req[r].user_id] = Append(@, req[r].user)]
                   ELSE salt_log
    /\ submissions' = submissions \o req[r].pending
    /\ issued' = IF req[r].result.flag # None
                 THEN issued \cup {IssuedFlag(r)}
                 ELSE issued
    /\ req' = [req EXCEPT ![r] = IdleReq]
    /\ verdict' = None
    /\ error' = None
    /\ call' = None
    /\ UNCHANGED <<now, cases, nextSalt, challenges, challenge_submissions>>
    /\ UNCHANGED limiter

----------------------------------------------------------------------------
(* A persistence write that fails.  The exception leaves process_submission *)
(* and submit_answer, get_db rolls the session back and raises it again;    *)
(* no handler catches it, so the client gets a 500.                         *)

ServerError(at) == Some([status |-> 500, at |-> at])

(* Variant: the session runs in autocommit, a flushed UPDATE stays *)
rollback_keeps_flushed(r) ==
    /\ users' = IF req[r].dirty
                THEN [users EXCEPT ![req[r].user_id] = req[r].user]
                ELSE users
    /\ salt_log' = IF req[r].dirty
                   THEN [salt_log EXCEPT ![req[r].user_id] = Append(@, req[r].user)]
                   ELSE salt_log
    /\ req' = [req EXCEPT ![r] = IdleReq]
    /\ UNCHANGED <<cases, submissions, issued>>

(* session.rollback() and session.close() in get_db: what the session *)
(* flushed is undone, its row locks are released                      *)
rollback(r) ==
    /\ req' = [req EXCEPT ![r] = IdleReq]
    /\ UNCHANGED <<users, salt_log, cases, submissions, issued>>

(* db.flush() in maybe_rotate_user_salt raises *)
RotationFlushFails(r) ==
    /\ req[r].pc = "loaded"
    /\ rotation_due(req[r].user, now)
    /\ nextSalt <= MaxSalt
    /\ nextSalt' = nextSalt + 1
    /\ rollback(r)
    /\ error' = ServerError("rotation")
    /\ verdict' = None /\ call' = None
    /\ UNCHANGED <<now, challenges, challenge_submissions>>
    /\ UNCHANGED limiter

(* db.flush() after db.add(submission) raises *)
RecordFlushFails(r) ==
    /\ req[r].pc = "checked"
    /\ rollback(r)
    /\ error' = ServerError("record")
    /\ verdict' = None /\ call' = None
    /\ UNCHANGED <<now, nextSalt, challenges, challenge_submissions>>
    /\ UNCHANGED limiter

(* db.commit() in submit_answer raises *)
CommitFails(r) ==
    /\ req[r].pc = "returned"
    /\ rollback(r)
    /\ error' = ServerError("commit")
    /\ verdict' = None /\ call' = None
    /\ UNCHANGED <<now, nextSalt, challenges, challenge_submissions>>
    /\ UNCHANGED limiter

----------------------------------------------------------------------------
(* PUT /admin/cases/{case_id}/semantic-truth *)

(* Variant: the digest is replaced, the case salt is kept *)
update_semantic_truth_keeps_salt(case, new_semantic_truth, salt) ==
    [case EXCEPT !.semantic_truth_hash = hash_semantic_truth(new_semantic_truth)]

(* CaseEngine.update_semantic_truth on the loaded row; salt is the value *)
(* generate_case_salt returns                                           *)
update_semantic_truth(case, new_semantic_truth, salt) ==
    [case EXCEPT !.semantic_truth_hash = hash_semantic_truth(new_semantic_truth),
                 !.case_salt = salt]

(* The handler: load, update, flush, commit *)
update_case_semantic_truth(case_id, semantic_truth) ==
    /\ case_id \in DOMAIN cases
    /\ nextSalt <= MaxSalt
    /\ cases' = [cases EXCEPT ![case_id] =
                     update_semantic_truth(@, semantic_truth, token_hex(nextSalt))]
    /\ nextSalt' = nextSalt + 1
    /\ verdict' = None
    /\ error' = None
    /\ call' = None
    /\ UNCHANGED <<now, users, submissions, req, issued, challenges,
                   challenge_submissions, salt_log>>
    /\ UNCHANGED limiter

----------------------------------------------------------------------------
(* Direct calls of CryptoService methods, as the unit tests make them *)

(* Python values with their type *)
py_bool(b) == [type |-> "bool", value |-> b]
py_str(s) == [type |-> "str", value |-> s]
py_tuple(t) == [type |-> "tuple", value |-> t]

(* bool(v), what `if v:` and `assert v` test *)
truthy(v) ==
    CASE v.type = "bool" -> v.value
      [] v.type = "str" -> Len(v.value) > 0
      [] v.type = "tuple" -> Len(v.value) > 0

CallHashes == {hash_semantic_truth(<<"g", "o">>)}
CallSalts == {token_hex(1), token_hex(2)}
CallCaseIds == {combined_case_id(c, token_hex(3)) : c \in CallCases}

(* generate_flag takes any str: ids as a caller may also pass them *)
CallUserIds == {<<u>> : u \in CallUsers} \cup {<<"A", ":", "c1">>}
CallCaseTexts == CallCaseIds \cup {token_hex(3)}

CallHashSemanticTruth(semantic_truth) ==
    /\ call = None
    /\ call' = Some([method |-> "hash_semantic_truth",
                     args |-> <<semantic_truth>>,
                     result |-> py_str(hash_semantic_truth(semantic_truth))])
    /\ verdict' = None
    /\ error' = None
    /\ UNCHANGED <<now, users, cases, submissions, req, issued, nextSalt,
                   challenges, challenge_submissions, salt_log>>
    /\ UNCHANGED limiter

CallVerifyAnswer(submitted_answer, stored_semantic_truth_hash) ==
    /\ call = None
    /\ call' = Some([method |-> "verify_answer",
                     args |-> <<submitted_answer, stored_semantic_truth_hash>>,
                     result |-> py_bool(crypto_verify_answer(submitted_answer,
                                            stored_semantic_truth_hash))])
    /\ verdict' = None
    /\ error' = None
    /\ UNCHANGED <<now, users, cases, submissions, req, issued, nextSalt,
                   challenges, challenge_submissions, salt_log>>
    /\ UNCHANGED limiter

CallGenerateFlag(user_id, case_id, semantic_truth_hash, user_flag_salt, time_window) ==
    /\ call = None
    /\ call' = Some([method |-> "generate_flag",
                     args |-> <<user_id, case_id, semantic_truth_hash,
                                user_flag_salt, time_window>>,
                     result |-> py_str(generate_flag(user_id, case_id,
                                           semantic_truth_hash, user_flag_salt,
                                           time_window))])
    /\ verdict' = None
    /\ error' = None
    /\ UNCHANGED <<now, users, cases, submissions, req, issued, nextSalt,
                   challenges, challenge_submissions, salt_log>>
    /\ UNCHANGED limiter

(* flag[:-5] + "XXXXX" on a flag whose last atoms are the MAC body and "}" *)
tamper(flag) == SubSeq(flag, 1, Len(flag) - 2) \o <<"XXXXX">>

(* Flags a test can hold: generated ones, and those with the tail replaced *)
CallFlags ==
    LET generated == {generate_flag(<<u>>, c, h, s, w) :
                         u \in CallUsers, c \in CallCaseIds, h \in CallHashes,
                         s \in CallSalts, w \in CallWindows}
    IN  generated \cup {tamper(f) : f \in generated}

CallCryptoVerifyFlag(submitted_flag, user_id, case_id, semantic_truth_hash, user_flag_salt) ==
    /\ call = None
    /\ call' = Some([method |-> "verify_flag",
                     args |-> <<submitted_flag, user_id, case_id,
                                semantic_truth_hash, user_flag_salt>>,
                     result |-> py_tuple(crypto_verify_flag(submitted_flag, user_id,
                                             case_id, semantic_truth_hash,
                                             user_flag_salt, now))])
    /\ verdict' = None
    /\ error' = None
    /\ UNCHANGED <<now, users, cases, submissions, req, issued, nextSalt,
                   challenges, challenge_submissions, salt_log>>
    /\ UNCHANGED limiter

----------------------------------------------------------------------------
(* Requests that end in an HTTPException *)

(* HTTPException(status_code=404, detail="Case not found") for a case id *)
NotFound(case_id) == Some([status |-> 404, at |-> case_id])

(* submit_answer for a case that is missing or inactive *)
CaseNotFound(user_id, case_id, answer) ==
    /\ InFlight = {}
    /\ ~case_found(cases, case_id)
    /\ error' = NotFound(case_id)
    /\ verdict' = None
    /\ call' = None
    /\ UNCHANGED <<now, users, cases, submissions, req, issued, nextSalt,
                   challenges, challenge_submissions, salt_log>>
    /\ UNCHANGED limiter

----------------------------------------------------------------------------
(* PUT /admin/cases/{case_id} *)

(* Fields CaseUpdate declares, of those the model keeps *)
CaseUpdateFields == {"points", "is_active"}

(* Request bodies: declared fields, and bodies naming columns of the row *)
UpdatePayloads ==
    { <<>>,
      [is_active |-> FALSE],
      [is_active |-> TRUE],
      [semantic_truth_hash |-> hash_semantic_truth(<<"n", "o">>)],
      [case_salt |-> token_hex(1), points |-> 25] }

(* Variant: CaseUpdate keeps the fields it does not declare *)
CaseUpdate_allows_extra(body) == body

(* CaseUpdate.model_dump(exclude_unset=True) of a request body: pydantic *)
(* drops the fields the schema does not declare                         *)
CaseUpdate(body) ==
    [f \in DOMAIN body \cap CaseUpdateFields |-> body[f]]

(* CaseEngine.update_case on the loaded row: setattr for every field set *)
update_case_row(case, case_data) ==
    [f \in DOMAIN case |-> IF f \in DOMAIN case_data THEN case_data[f] ELSE case[f]]

(* The handler: validate the body, load, update, commit; 404 if no such case *)
update_case(case_id, body) ==
    /\ IF case_id \in DOMAIN cases
       THEN /\ cases' = [cases EXCEPT ![case_id] = update_case_row(@, CaseUpdate(body))]
            /\ error' = None
       ELSE /\ error' = NotFound(case_id)
            /\ UNCHANGED cases
    /\ verdict' = None
    /\ call' = None
    /\ UNCHANGED <<now, users, submissions, req, issued, nextSalt, challenges,
                   challenge_submissions, salt_log>>
    /\ UNCHANGED limiter

----------------------------------------------------------------------------
(* RateLimiter, the instance submission_rate_limiter.  The body of        *)
(* `async with self._lock` has no await and the lock is never held across *)
(* one, so a call runs from reading the clock to its return in one step.  *)

requests_per_minute == MaxRequestsPerMinute
window_size == 60

(* [ts for ts in self._requests[full_key] if ts > window_start] *)
live_requests(timestamps, t) ==
    LET window_start == t - window_size
    IN  SelectSeq(timestamps, LAMBDA ts : ts > window_start)

(* Variant: one request more than the limit gets through *)
over_limit_after_one_more(count) == count > requests_per_minute

(* len(self._requests[full_key]) >= self.requests_per_minute *)
over_limit(count) == count >= requests_per_minute

min_timestamp(timestamps) ==
    CHOOSE ts \in {timestamps[i] : i \in 1..Len(timestamps)} :
        \A i \in 1..Len(timestamps) : ts <= timestamps[i]

max_int(a, b) == IF a >= b THEN a ELSE b

is_allowed(key) ==
    LET kept == live_requests(requests[key], now)
        allowed == ~over_limit(Len(kept))
    IN  /\ requests' = [requests EXCEPT ![key] =
                            IF allowed THEN Append(kept, now) ELSE kept]
        /\ granted' = [granted EXCEPT ![key] =
                           IF allowed THEN Append(@, now) ELSE @]
        /\ call' = Some([method |-> "is_allowed", args |-> <<key>>,
                         result |-> py_bool(allowed)])

(* HTTPException(429) of check_submission_rate_limit *)
TooManyRequests(user_id) == Some([status |-> 429, at |-> user_id])

check_submission_rate_limit(user_id) ==
    /\ is_allowed(<<"user:", user_id>>)
    /\ error' = IF call'[1].result.value THEN None ELSE TooManyRequests(user_id)
    /\ verdict' = None
    /\ UNCHANGED <<now, users, cases, submissions, req, issued, nextSalt,
                   challenges, challenge_submissions, salt_log>>

get_remaining(key) ==
    /\ LET kept == live_requests(requests[key], now)
           current_count == Len(kept)
           remaining == max_int(0, requests_per_minute - current_count)
           reset_in == IF kept # <<>>
                       THEN max_int(0, min_timestamp(kept) + window_size - now)
                       ELSE 0
       IN  /\ requests' = [requests EXCEPT ![key] = kept]
           /\ call' = Some([method |-> "get_remaining", args |-> <<key>>,
                            result |-> py_tuple(<<remaining, reset_in>>)])
    /\ UNCHANGED granted
    /\ error' = None
    /\ verdict' = None
    /\ UNCHANGED <<now, users, cases, submissions, req, issued, nextSalt,
                   challenges, challenge_submissions, salt_log>>

(* The clock between two calls of the limiter *)
LimiterTick ==
    /\ \E t \in LimiterTimes : t > now /\ now' = t
    /\ verdict' = None
    /\ error' = None
    /\ call' = None
    /\ UNCHANGED <<users, cases, submissions, req, issued, nextSalt,
                   challenges, challenge_submissions, salt_log>>
    /\ UNCHANGED limiter

----------------------------------------------------------------------------
(* A caller of FlagEngine.verify_flag, with the rows as persisted *)

(* Strings a client can present for (user_id, case_id) *)
Candidates(user_id, case_id) ==
    {i.flag : i \in issued}
      \cup {tamper(i.flag) : i \in issued}
      \cup {generate_flag_for_user(user_id, case_id,
                                   cases[case_id].semantic_truth_hash,
                                   cases[case_id].case_salt,
                                   users[user_id].flag_salt,
                                   now + FLAG_EXPIRY_MINUTES * 60)}

VerifyFlag(user_id, case_id, submitted_flag) ==
    /\ verdict' = Some([submitted_flag |-> submitted_flag,
                        user_id |-> user_id,
                        case_id |-> case_id,
                        result |-> verify_flag(submitted_flag, user_id, case_id,
                                     cases[case_id].semantic_truth_hash,
                                     cases[case_id].case_salt,
                                     users[user_id].flag_salt, now)])
    /\ error' = None
    /\ call' = None
    /\ UNCHANGED <<now, users, cases, submissions, req, issued, nextSalt,
                   challenges, challenge_submissions, salt_log>>
    /\ UNCHANGED limiter

----------------------------------------------------------------------------
(* POST /challenges/{challenge_id}/submit *)

(* The newest row of the user for the challenge, if any *)
latest_challenge_submission(rows, user_id, challenge_id) ==
    LET mine == {i \in 1..Len(rows) : /\ rows[i].user_id = user_id
                                      /\ rows[i].challenge_id = challenge_id}
    IN  IF mine = {} THEN None
        ELSE Some(rows[CHOOSE i \in mine : \A j \in mine : j <= i])

submit_challenge_answer(user_id, challenge_id, answer) ==
    /\ Len(challenge_submissions) < MaxChallengeSubmissions
    /\ challenge_id \in DOMAIN challenges
    /\ challenges[challenge_id].is_active
    /\ LET challenge_row == challenges[challenge_id]
           existing_row == latest_challenge_submission(challenge_submissions,
                                                       user_id, challenge_id)
           already_solved == existing_row # None /\ existing_row[1].is_correct
           submitted_answer == strip(answer)
           submitted_hash == hash_semantic_truth(submitted_answer)
           is_correct == submitted_hash = challenge_row.semantic_truth_hash
           points_awarded == IF is_correct /\ ~already_solved
                             THEN challenge_row.points ELSE 0
       IN  challenge_submissions' =
               Append(challenge_submissions,
                      [user_id |-> user_id,
                       challenge_id |-> challenge_id,
                       submitted_flag |-> submitted_answer,
                       is_correct |-> is_correct,
                       points_awarded |-> points_awarded])
    /\ verdict' = None
    /\ error' = None
    /\ call' = None
    /\ UNCHANGED <<now, users, cases, submissions, challenges, req, nextSalt,
                   issued, salt_log>>
    /\ UNCHANGED limiter

----------------------------------------------------------------------------
(* Specifications *)

(* One call at a time, the clock running *)
SubmitAnswer(user_id, case_id, answer) ==
    /\ InFlight = {}
    /\ LoadRequest(1, user_id, case_id, answer)

CallVerifyFlag(user_id, case_id, submitted_flag) ==
    /\ InFlight = {}
    /\ VerifyFlag(user_id, case_id, submitted_flag)

Next ==
    \/ Tick
    \/ \E u \in Users, c \in Cases, a \in Answers : SubmitAnswer(u, c, a)
    \/ \E r \in Reqs : maybe_rotate_user_salt(r)
    \/ \E r \in Reqs : CheckAlreadySolved(r)
    \/ \E r \in Reqs : RecordSubmission(r)
    \/ \E r \in Reqs : ReturnResult(r)
    \/ \E r \in Reqs : Commit(r)
    \/ \E u \in Users, c \in Cases : \E f \in Candidates(u, c) :
           CallVerifyFlag(u, c, f)

Spec == Init /\ [][Next]_vars

(* Submissions overlapping at one instant *)
InitConc ==
    /\ now \in TimePoints
    /\ StoreInit

NextConc ==
    \/ \E r \in Reqs, u \in Users, c \in Cases, a \in Answers :
           LoadRequest(r, u, c, a)
    \/ \E r \in Reqs : maybe_rotate_user_salt(r)
    \/ \E r \in Reqs : CheckAlreadySolved(r)
    \/ \E r \in Reqs : RecordSubmission(r)
    \/ \E r \in Reqs : ReturnResult(r)
    \/ \E r \in Reqs : Commit(r)

SpecConc == InitConc /\ [][NextConc]_vars

(* Overlapping submissions whose persistence writes may fail *)
NextFail ==
    \/ NextConc
    \/ \E r \in Reqs : RotationFlushFails(r)
    \/ \E r \in Reqs : RecordFlushFails(r)
    \/ \E r \in Reqs : CommitFails(r)

SpecFail == InitConc /\ [][NextFail]_vars

(* Submissions one at a time while an administrator edits answers *)
NextAdmin ==
    \/ \E u \in Users, c \in Cases, a \in Answers : SubmitAnswer(u, c, a)
    \/ \E r \in Reqs : maybe_rotate_user_salt(r)
    \/ \E r \in Reqs : CheckAlreadySolved(r)
    \/ \E r \in Reqs : RecordSubmission(r)
    \/ \E r \in Reqs : ReturnResult(r)
    \/ \E r \in Reqs : Commit(r)
    \/ \E c \in Cases, a \in Answers : update_case_semantic_truth(c, a)

SpecAdmin == InitConc /\ [][NextAdmin]_vars

(* One direct call of a CryptoService method, in the second time window *)
InitCalls ==
    /\ now = 3600
    /\ StoreInit

NextCalls ==
    \/ \E a \in Texts : CallHashSemanticTruth(a)
    \/ \E a \in Texts, b \in Truths : CallVerifyAnswer(a, hash_semantic_truth(b))
    \/ \E u \in CallUserIds, c \in CallCaseTexts, h \in CallHashes, s \in CallSalts,
          w \in CallWindows : CallGenerateFlag(u, c, h, s, w)
    \/ \E f \in CallFlags, u \in CallUsers, c \in CallCaseIds, h \in CallHashes,
          s \in CallSalts : CallCryptoVerifyFlag(f, <<u>>, c, h, s)

SpecCalls == InitCalls /\ [][NextCalls]_vars

(* Tokens of malformed shape: wrong prefix, no suffix, empty body *)
MalformedTokens ==
    { <<"FLAG{", "XXXXX", "}">>, <<"FORENSIC{", "XXXXX">>, <<"FORENSIC{", "}">> }

(* Submissions for any case id, case updates by an administrator and *)
(* verify_flag calls with malformed tokens                           *)
NextCases ==
    \/ \E u \in Users, c \in Cases, a \in Answers : SubmitAnswer(u, c, a)
    \/ \E u \in Users, c \in RequestedCases, a \in Answers : CaseNotFound(u, c, a)
    \/ \E r \in Reqs : maybe_rotate_user_salt(r)
    \/ \E r \in Reqs : CheckAlreadySolved(r)
    \/ \E r \in Reqs : RecordSubmission(r)
    \/ \E r \in Reqs : ReturnResult(r)
    \/ \E r \in Reqs : Commit(r)
    \/ \E c \in RequestedCases, body \in UpdatePayloads : update_case(c, body)
    \/ \E c \in Cases : update_case_semantic_truth(c, <<"n", "o">>)
    \/ \E c \in Cases, f \in MalformedTokens : CallVerifyFlag("A", c, f)

SpecCases == Init /\ [][NextCases]_vars

(* Callers of the submission rate limiter, in any order *)
NextLimiter ==
    \/ LimiterTick
    \/ \E u \in Users : check_submission_rate_limit(u)
    \/ \E k \in LimiterKeys : get_remaining(k)

SpecLimiter == Init /\ [][NextLimiter]_vars

(* The challenge endpoint, one request after the other *)
ChallengeAnswers ==
    Answers \cup {CHALLENGES[ch].semantic_truth : ch \in ChallengeIds}

NextChallenge ==
    \E u \in Users, ch \in ChallengeIds, a \in ChallengeAnswers :
        submit_challenge_answer(u, ch, a)

SpecChallenge == Init /\ [][NextChallenge]_vars

----------------------------------------------------------------------------
(* Properties *)

Valid == <<TRUE, "valid">>
InvalidOrExpired == <<FALSE, "invalid_or_expired">>

WindowSeconds == FLAG_EXPIRY_MINUTES * 60

(* FlagEngine.verify_flag called now with the persisted rows *)
VerifyNow(flag, user_id, case_id) ==
    verify_flag(flag, user_id, case_id, cases[case_id].semantic_truth_hash,
                cases[case_id].case_salt, users[user_id].flag_salt, now)

(* The rows a flag was minted from are still the persisted ones *)
SameInputs(i) ==
    /\ users[i.user_id].flag_salt = i.user_flag_salt
    /\ cases[i.case_id].case_salt = i.case_salt
    /\ cases[i.case_id].semantic_truth_hash = i.semantic_truth_hash

(* The last step was verify_flag of issued flag i for user_id *)
VerdictOn(i, user_id) ==
    /\ verdict # None
    /\ verdict[1].submitted_flag = i.flag
    /\ verdict[1].user_id = user_id
    /\ verdict[1].case_id = i.case_id

(* The salt of issued flag i is one the user had before the current one *)
UnderEarlierSalt(i) ==
    \E k \in 1..(Len(salt_log[i.user_id]) - 1) :
        salt_log[i.user_id][k].flag_salt = i.user_flag_salt

(* C1: with the user's salt, the case salt and the truth digest unchanged, a *)
(* flag minted in window n is reported valid while the current window is n   *)
(* or n+1 and invalid_or_expired once it is n+2 or later.                    *)
C1_Expiry ==
    \A i \in issued :
        SameInputs(i) =>
            LET n == i.time_window
                e == get_time_window(now)
                res == VerifyNow(i.flag, i.user_id, i.case_id)
            IN  /\ e \in {n, n + 1} => res = Valid
                /\ e >= n + 2 => res = InvalidOrExpired

C1_Witness ==
    \E i \in issued :
        /\ SameInputs(i)
        /\ get_time_window(now) >= i.time_window + 2
        /\ VerdictOn(i, i.user_id)
        /\ verdict[1].result = InvalidOrExpired

(* C2: a flag minted for user A is never reported valid when verify_flag is *)
(* called with the identity and the salt of another user B, in any window.  *)
C2_CrossUser ==
    \A i \in issued : \A b \in Users \ {i.user_id} :
        VerifyNow(i.flag, b, i.case_id) = InvalidOrExpired

C2_Witness ==
    \E i \in issued : \E b \in Users \ {i.user_id} :
        /\ get_time_window(now) = i.time_window
        /\ VerdictOn(i, b)
        /\ verdict[1].result = InvalidOrExpired

(* C3: once a rotation has replaced a user's salt, every flag minted under *)
(* an earlier salt of that user is reported invalid_or_expired against the *)
(* current salt, in every later state and window.                          *)
C3_RotationInvalidates ==
    \A i \in issued :
        UnderEarlierSalt(i) =>
            VerifyNow(i.flag, i.user_id, i.case_id) = InvalidOrExpired

C3_Witness ==
    \E i \in issued :
        /\ UnderEarlierSalt(i)
        /\ get_time_window(now) \in {i.time_window, i.time_window + 1}
        /\ VerdictOn(i, i.user_id)
        /\ verdict[1].result = InvalidOrExpired

(* C6: round trip: the flag process_submission has just minted is reported  *)
(* valid by verify_flag with the same user, case, digest and salts, at the  *)
(* instant of minting and at the first instant of the next window.          *)
C6_RoundTrip ==
    [][\A r \in Reqs :
          (req[r].pc = "recorded" /\ req'[r].pc = "returned"
               /\ req'[r].result.flag # None) =>
              \A t \in {now, (get_time_window(now) + 1) * WindowSeconds} :
                  verify_flag(req'[r].result.flag[1], req[r].user_id,
                              req[r].case_id, req[r].case.semantic_truth_hash,
                              req[r].case.case_salt, req[r].user.flag_salt, t)
                      = Valid]_vars

C6_Witness ==
    \E i \in issued :
        /\ SameInputs(i)
        /\ get_time_window(now) = i.time_window + 1
        /\ VerdictOn(i, i.user_id)
        /\ verdict[1].result = Valid

(* The token of (user_id, case_id) for window w, from the persisted rows *)
Token(user_id, case_id, w) ==
    expected_flag(str_uuid(user_id),
                  str_uuid(case_id) \o <<":">> \o cases[case_id].case_salt,
                  cases[case_id].semantic_truth_hash,
                  users[user_id].flag_salt, w)

(* C7: verify_flag reports valid exactly for the token of the current window *)
(* n and the token of window n-1; any other string, the token of window n+1  *)
(* and an altered genuine token included, is invalid_or_expired.             *)
C7_ValidIffCurrentOrPrevious ==
    \A u \in Users, c \in Cases : \A f \in Candidates(u, c) :
        LET n == get_time_window(now)
            res == VerifyNow(f, u, c)
        IN  /\ res = IF f \in {Token(u, c, n), Token(u, c, n - 1)}
                     THEN Valid ELSE InvalidOrExpired
            /\ f = Token(u, c, n + 1) => res = InvalidOrExpired
            /\ (\E i \in issued : f = tamper(i.flag)) => res = InvalidOrExpired
            /\ (\E i \in issued : f = i.flag /\ i.user_id = u /\ i.case_id = c
                    /\ SameInputs(i) /\ i.time_window \in {n, n - 1})
                   => res = Valid

C7_Witness ==
    /\ verdict # None
    /\ verdict[1].submitted_flag =
           Token(verdict[1].user_id, verdict[1].case_id, get_time_window(now) + 1)
    /\ verdict[1].result = InvalidOrExpired
    /\ issued # {}

(* C4: in every interleaving of submissions of one user, each flag returned *)
(* was minted with the salt that is persisted for the user once those       *)
(* submissions have committed.                                              *)
C4_FlagUnderPersistedSalt ==
    InFlight = {} =>
        \A i \in issued : i.user_flag_salt = users[i.user_id].flag_salt

(* C5: calls of maybe_rotate_user_salt for one user that run at the same    *)
(* instant replace the salt at most once, and all of them end with the same *)
(* salt.                                                                    *)
C5_RotatedOnce ==
    /\ \A u \in Users : Len(salt_log[u]) <= 2
    /\ \A i, j \in issued :
           i.user_id = j.user_id => i.user_flag_salt = j.user_flag_salt

RotationInterval == FLAG_SALT_ROTATION_HOURS * 3600

(* The step in which request r runs maybe_rotate_user_salt *)
RotationStep(r) == req[r].pc = "loaded" /\ req'[r].pc = "rotated"

Rotated(r) ==
    /\ req'[r].user.flag_salt # req[r].user.flag_salt
    /\ req'[r].user.flag_salt_rotated_at = now

(* C8 as stated: maybe_rotate_user_salt draws a new salt and sets rotated_at *)
(* to now exactly when now - rotated_at >= the interval, and otherwise       *)
(* leaves the user as it is.                                                 *)
C8_RotatesAtInterval ==
    [][\A r \in Reqs :
          RotationStep(r) =>
              IF now - req[r].user.flag_salt_rotated_at >= RotationInterval
              THEN Rotated(r)
              ELSE req'[r].user = req[r].user]_vars

(* C8 amended: maybe_rotate_user_salt draws a new salt and sets rotated_at *)
(* to now exactly when now - rotated_at > the interval; a salt exactly as  *)
(* old as the interval, or younger, is left as it is.                      *)
C8_RotatesPastInterval ==
    [][\A r \in Reqs :
          RotationStep(r) =>
              IF now - req[r].user.flag_salt_rotated_at > RotationInterval
              THEN Rotated(r)
              ELSE req'[r].user = req[r].user]_vars

C8_Witness ==
    \E r \in Reqs :
        /\ req[r].pc = "rotated"
        /\ req[r].dirty
        /\ req[r].user.flag_salt_rotated_at = now
        /\ req[r].user.flag_salt # users[req[r].user_id].flag_salt
        /\ now - users[req[r].user_id].flag_salt_rotated_at = RotationInterval + 1

(* A digest, as hash_semantic_truth produces them *)
IsDigest(s) == \E a \in Answers : s = hash_semantic_truth(a)

(* C9: no persisted submission record holds the answer string a user sent; *)
(* it holds a digest of it, for correct and incorrect submissions alike.   *)
C9_NoRawAnswer ==
    /\ \A k \in 1..Len(submissions) :
           /\ submissions[k].submitted_answer_hash \notin Answers
           /\ IsDigest(submissions[k].submitted_answer_hash)
    /\ \A k \in 1..Len(challenge_submissions) :
           /\ challenge_submissions[k].submitted_flag \notin Answers
           /\ IsDigest(challenge_submissions[k].submitted_flag)

(* C10: every process_submission call that completes has added exactly one *)
(* record, whose is_correct is the verdict it returns; the commit appends   *)
(* that record and no step changes or removes an earlier record.            *)
C10_OneRecordPerCall ==
    [][/\ Len(submissions') >= Len(submissions)
       /\ SubSeq(submissions', 1, Len(submissions)) = submissions
       /\ \A r \in Reqs :
              (req[r].pc = "recorded" /\ req'[r].pc = "returned") =>
                  /\ Len(req[r].pending) = 1
                  /\ req[r].pending[1].is_correct = req'[r].result.is_correct
                  /\ req[r].pending[1].user_id = req[r].user_id
                  /\ req[r].pending[1].case_id = req[r].case_id
       /\ \A r \in Reqs :
              (req[r].pc = "returned" /\ req'[r].pc = "idle") =>
                  /\ Len(submissions') = Len(submissions) + 1
                  /\ submissions'[Len(submissions')].is_correct
                         = req[r].result.is_correct
                  /\ submissions'[Len(submissions')].user_id = req[r].user_id]_vars

C10_Witness ==
    /\ Len(submissions) = 2
    /\ submissions[1].is_correct # submissions[2].is_correct

----------------------------------------------------------------------------
(* The result of process_submission *)

(* A request whose process_submission has returned *)
Returned(r) == req[r].pc = "returned"

(* The verdict of verify_answer on the request's answer *)
Verdict(r) == verify_answer(req[r].answer, req[r].case.semantic_truth_hash)

(* C11: process_submission returns a flag if and only if the verdict is *)
(* correct; an incorrect answer gets neither flag nor points, a correct *)
(* one always gets a flag.                                              *)
C11_FlagIffCorrect ==
    \A r \in Reqs :
        Returned(r) =>
            /\ req[r].result.is_correct = Verdict(r)
            /\ (req[r].result.flag # None) <=> Verdict(r)
            /\ ~Verdict(r) => req[r].result.points = None

(* An incorrect answer has been answered after a flag went out earlier *)
C11_Witness ==
    /\ issued # {}
    /\ \E r \in Reqs : /\ Returned(r)
                        /\ ~Verdict(r)
                        /\ req[r].result.flag = None

----------------------------------------------------------------------------
(* Persistence failures *)

(* C12: a persistence write that fails during the rotation or the record *)
(* append aborts the whole submission: the caller gets an error and no   *)
(* flag, no submission record remains, and a rotation done earlier in    *)
(* the same submission is not left persisted.                            *)
C12_AbortWithoutEffect ==
    [][error' # None =>
          /\ UNCHANGED <<users, salt_log, submissions, issued, cases>>
          /\ \E r \in Reqs : /\ req[r].pc # "idle"
                              /\ req' = [req EXCEPT ![r] = IdleReq]]_vars

(* The record append failed in a submission that had rotated the salt: *)
(* the one salt drawn so far is persisted nowhere                      *)
C12_Witness ==
    /\ error # None
    /\ error[1].at = "record"
    /\ nextSalt = 5
    /\ InFlight = {}
    /\ \A u \in Users : Len(salt_log[u]) = 1
    /\ submissions = <<>>

----------------------------------------------------------------------------
(* What a wrong answer is told *)

(* C13: for an incorrect answer the response of process_submission      *)
(* (message, flag, points) is the one it would be had the user's solve  *)
(* state been the other one: solved or not, the response is the same.   *)
C13_IncorrectHidesSolveState ==
    \A r \in Reqs :
        (Returned(r) /\ ~Verdict(r)) =>
            \A solved \in BOOLEAN :
                req[r].result = process_result(FALSE, solved, <<>>, req[r].case.points)

(* A wrong answer from a user who had solved the case has been answered *)
C13_Witness ==
    \E r \in Reqs : /\ Returned(r)
                    /\ ~Verdict(r)
                    /\ req[r].already_solved
                    /\ check_already_solved(submissions, req[r].user_id, req[r].case_id)

----------------------------------------------------------------------------
(* Editing the answer of a case *)

(* Flag i is rejected for every user against the rows in the given store *)
RejectedForAll(i, case_rows, user_rows) ==
    \A u \in Users :
        verify_flag(i.flag, u, i.case_id, case_rows[i.case_id].semantic_truth_hash,
                    case_rows[i.case_id].case_salt, user_rows[u].flag_salt, now)
            = InvalidOrExpired

(* C14: update_semantic_truth replaces the truth digest and the case salt *)
(* together, and from then on every flag issued for the case before the   *)
(* edit is reported invalid_or_expired for every user.                    *)
C14_EditInvalidatesFlags ==
    /\ [](\A i \in issued :
            i.case_salt # cases[i.case_id].case_salt => RejectedForAll(i, cases, users))
    /\ [][\A c \in Cases :
            cases'[c] # cases[c] =>
                /\ cases'[c].case_salt # cases[c].case_salt
                /\ \E a \in Answers :
                       cases'[c].semantic_truth_hash = hash_semantic_truth(a)
                /\ \A i \in issued :
                       i.case_id = c => RejectedForAll(i, cases', users')]_vars

(* The answer was edited to one with the same digest while a flag issued *)
(* in the current window was out                                         *)
C14_Witness ==
    \E i \in issued :
        /\ i.time_window = get_time_window(now)
        /\ i.user_flag_salt = users[i.user_id].flag_salt
        /\ i.semantic_truth_hash = cases[i.case_id].semantic_truth_hash
        /\ i.case_salt # cases[i.case_id].case_salt

----------------------------------------------------------------------------
(* The answers at rest *)

(* Columns of cases and challenges that hold text about the answer *)
TruthColumns == {"semantic_truth", "semantic_truth_hash", "case_salt"}

(* The row holds the answer itself in one of its columns *)
HoldsPlaintext(row, semantic_truth) ==
    \E f \in TruthColumns \cap DOMAIN row : row[f] = semantic_truth

(* C15: no persisted case or challenge record holds the plaintext answer; *)
(* authoring or editing an answer stores only its digest.                 *)
C15_NoPlaintextTruth ==
    /\ \A c \in Cases : \A a \in Answers : ~HoldsPlaintext(cases[c], a)
    /\ \A ch \in DOMAIN challenges :
           ~HoldsPlaintext(challenges[ch], CHALLENGES[ch].semantic_truth)

----------------------------------------------------------------------------
(* Direct calls: uniqueness of flags *)

(* The last step was a direct call of the method *)
Called(method) == call # None /\ call[1].method = method

(* C16: within one time window, the flags minted for two distinct users on *)
(* the same case differ, and the flags minted for one user on two distinct *)
(* cases differ.                                                          *)
C16_FlagsDiffer ==
    Called("generate_flag") =>
        LET user_id == call[1].args[1]
            case_id == call[1].args[2]
            semantic_truth_hash == call[1].args[3]
            user_flag_salt == call[1].args[4]
            time_window == call[1].args[5]
            flag == call[1].result.value
        IN  /\ \A u \in CallUsers, s \in CallSalts :
                   <<u>> # user_id =>
                       generate_flag(<<u>>, case_id, semantic_truth_hash, s,
                                     time_window) # flag
            /\ \A c \in CallCaseIds :
                   c # case_id =>
                       generate_flag(user_id, c, semantic_truth_hash,
                                     user_flag_salt, time_window) # flag

(* A flag was minted for user B on case c2 in the second window *)
C16_Witness ==
    /\ Called("generate_flag")
    /\ call[1].args[1] = <<"B">>
    /\ call[1].args[2] = combined_case_id("c2", token_hex(3))
    /\ call[1].args[5] = 1
    /\ call[1].result.value # <<>>

----------------------------------------------------------------------------
(* Submitting a solved case again *)

(* The step is the commit of request r, after which the response goes out *)
Responds(r) == req[r].pc = "returned" /\ req'[r].pc = "idle" /\ error' = None

(* C17: once a correct submission is recorded, the same user submitting   *)
(* the correct answer for the same case again gets is_correct = true and  *)
(* a flag that verify_flag reports valid when the response goes out, also *)
(* after a salt rotation or a change of window; with the window and the   *)
(* salt unchanged the flag is the one issued before.                      *)
C17_ResubmissionGetsValidFlag ==
    [][\A r \in Reqs :
          (/\ Responds(r)
           /\ check_already_solved(submissions, req[r].user_id, req[r].case_id)
           /\ Verdict(r)) =>
              /\ req[r].result.is_correct
              /\ req[r].result.flag # None
              /\ get_time_window(now) <= req[r].minted_in + 1 =>
                     verify_flag(req[r].result.flag[1], req[r].user_id,
                                 req[r].case_id,
                                 cases'[req[r].case_id].semantic_truth_hash,
                                 cases'[req[r].case_id].case_salt,
                                 users'[req[r].user_id].flag_salt, now') = Valid
              /\ \A i \in issued :
                     (/\ i.user_id = req[r].user_id
                      /\ i.case_id = req[r].case_id
                      /\ i.time_window = req[r].minted_in
                      /\ i.user_flag_salt = users'[req[r].user_id].flag_salt) =>
                         i.flag = req[r].result.flag[1]]_vars

(* A user holds two flags for one case, minted under different salts: the *)
(* second submission came after a rotation                                *)
C17_Witness ==
    /\ Len(submissions) = 2
    /\ \E i, j \in issued : /\ i.user_id = j.user_id
                            /\ i.case_id = j.case_id
                            /\ i.user_flag_salt # j.user_flag_salt
                            /\ j.user_flag_salt = users[j.user_id].flag_salt

----------------------------------------------------------------------------
(* Direct calls: normalisation of answers *)

(* An upper case letter with a lower case form of it *)
AsciiCasePairs == {<<"G", "g">>, <<"O", "o">>, <<"N", "n">>}
SigmaCasePairs == {<<"U+03A3", "U+03C3">>, <<"U+03A3", "U+03C2">>}

(* x and y are one letter, in the same or in different case *)
SameLetter(x, y, pairs) == x = y \/ <<x, y>> \in pairs \/ <<y, x>> \in pairs

(* s with some of its leading and trailing whitespace removed *)
Trimmed(s) ==
    {SubSeq(s, i, j) : <<i, j>> \in
        {p \in (1..Len(s) + 1) \X (0..Len(s)) :
            /\ p[1] <= p[2] + 1
            /\ \A k \in 1..(p[1] - 1) : s[k] \in Whitespace
            /\ \A k \in (p[2] + 1)..Len(s) : s[k] \in Whitespace}}

(* a and b differ only in letter case or in leading/trailing whitespace *)
DifferOnlyInCaseOrPadding(a, b, pairs) ==
    \E x \in Trimmed(a), y \in Trimmed(b) :
        /\ Len(x) = Len(y)
        /\ \A k \in 1..Len(x) : SameLetter(x[k], y[k], pairs)

(* C18 as stated: hash_semantic_truth gives the same digest for any two *)
(* answers that differ only in letter case or in leading/trailing       *)
(* whitespace, and the same digest every time for the same answer.      *)
C18_SameDigestUpToCase ==
    Called("hash_semantic_truth") =>
        LET a == call[1].args[1]
            digest == call[1].result.value
        IN  /\ hash_semantic_truth(a) = digest
            /\ \A b \in Texts :
                   DifferOnlyInCaseOrPadding(a, b, AsciiCasePairs \cup SigmaCasePairs)
                       => hash_semantic_truth(b) = digest

(* C18 amended: the digests agree for answers that differ only in       *)
(* leading/trailing whitespace or in the case of letters whose lower    *)
(* case form does not depend on their position (the ASCII letters), and *)
(* the digest of one answer is the same every time.                     *)
C18_SameDigestUpToAsciiCase ==
    Called("hash_semantic_truth") =>
        LET a == call[1].args[1]
            digest == call[1].result.value
        IN  /\ hash_semantic_truth(a) = digest
            /\ \A b \in Texts :
                   DifferOnlyInCaseOrPadding(a, b, AsciiCasePairs)
                       => hash_semantic_truth(b) = digest

(* The digest of " G" was computed, which is also the digest of "g " *)
C18_Witness ==
    /\ Called("hash_semantic_truth")
    /\ call[1].args[1] = <<" ", "G">>
    /\ DifferOnlyInCaseOrPadding(call[1].args[1], <<"g", " ">>, AsciiCasePairs)
    /\ call[1].result.value = hash_semantic_truth(<<"g", " ">>)

(* C19: verify_answer(a, hash_semantic_truth(b)) is true exactly when a   *)
(* and b are equal after trimming surrounding whitespace and lowercasing; *)
(* an answer whose normalized form differs is never accepted.             *)
C19_VerifyAnswerIffNormalizedEqual ==
    Called("verify_answer") =>
        LET a == call[1].args[1]
            stored == call[1].args[2]
        IN  /\ call[1].result.type = "bool"
            /\ \A b \in Truths :
                   stored = hash_semantic_truth(b) =>
                       (call[1].result.value <=> lower(strip(a)) = lower(strip(b)))

(* " G" was verified against the digest of "g" and accepted *)
C19_Witness ==
    /\ Called("verify_answer")
    /\ call[1].args[1] = <<" ", "G">>
    /\ call[1].args[2] = hash_semantic_truth(<<"g">>)
    /\ call[1].result.value

----------------------------------------------------------------------------
(* Direct calls: the value verify_flag returns *)

(* The submitted flag is the one generate_flag gives for the arguments of *)
(* the call in the current window                                         *)
JustGenerated ==
    call[1].args[1] = generate_flag(call[1].args[2], call[1].args[3],
                                    call[1].args[4], call[1].args[5],
                                    get_time_window(now))

(* The submitted flag was generated for another user, or is a tampered one *)
ForeignOrTampered ==
    \/ call[1].args[1] = tamper(generate_flag(call[1].args[2], call[1].args[3],
                                              call[1].args[4], call[1].args[5],
                                              get_time_window(now)))
    \/ \E u \in CallUsers :
           /\ <<u>> # call[1].args[2]
           /\ call[1].args[1] = generate_flag(<<u>>, call[1].args[3], call[1].args[4],
                                              call[1].args[5], get_time_window(now))

(* C20: the value CryptoService.verify_flag returns is itself the verdict: *)
(* the boolean True for a flag just generated with the same arguments, the *)
(* boolean False for a flag of another user or a tampered flag, so that a  *)
(* caller testing the value directly gets the verdict.                     *)
C20_ReturnsBoolean ==
    Called("verify_flag") =>
        /\ JustGenerated =>
               /\ call[1].result.type = "bool"
               /\ call[1].result.value = TRUE
               /\ truthy(call[1].result)
        /\ ForeignOrTampered =>
               /\ call[1].result.type = "bool"
               /\ call[1].result.value = FALSE
               /\ ~truthy(call[1].result)

----------------------------------------------------------------------------
(* Precondition violations *)

(* Case id c names a row that is active *)
ActiveCase(c) == c \in DOMAIN cases /\ cases[c].is_active

(* This step starts the processing of a submission by request r *)
Accepted(r) == req[r].pc = "idle" /\ req'[r].pc = "loaded"

(* This step refuses a submission for case id c: nothing of it is kept *)
Refused(c) ==
    /\ error' = NotFound(c)
    /\ UNCHANGED <<cases, submissions, req, issued>>

(* This step is a verify_flag call on a token of malformed shape *)
VerifiesMalformed ==
    /\ verdict' # None
    /\ verdict'[1].submitted_flag \in MalformedTokens

(* A submission is accepted only for an active case, and one refused with *)
(* 404 names a case that is missing or inactive                           *)
CaseErrors ==
    /\ \A r \in Reqs : Accepted(r) => ActiveCase(req'[r].case_id) /\ error' = None
    /\ \A c \in RequestedCases : Refused(c) => ~ActiveCase(c)

(* C21 as stated: a submission for a missing or inactive case and a     *)
(* verify_flag call with a malformed token each yield an error, not a   *)
(* validation outcome.                                                  *)
C21_MalformedTokenIsError ==
    [][ /\ CaseErrors
        /\ \A c \in Cases, f \in MalformedTokens :
               CallVerifyFlag("A", c, f) => error' # None /\ verdict' = None ]_vars

(* C21: a submission for a missing or inactive case yields the 404 error *)
(* and starts no processing; a verify_flag call with a malformed token   *)
(* yields the ordinary verdict (False, "invalid_or_expired"), no error.  *)
C21_CaseErrorsOnly ==
    [][ /\ CaseErrors
        /\ VerifiesMalformed =>
               verdict'[1].result = InvalidOrExpired /\ error' = None ]_vars

(* A malformed token has been judged as any other wrong flag *)
C21_MalformedRejected ==
    /\ verdict # None
    /\ verdict[1].submitted_flag \in MalformedTokens
    /\ verdict[1].result = InvalidOrExpired
    /\ error = None

----------------------------------------------------------------------------
(* What verify_flag shows of the epoch that matched *)

(* C22: verify_flag does not reveal which epoch matched.  For the call   *)
(* made and the same call on any other flag, the sequence of operations  *)
(* (recompute for epoch n, compare, recompute for epoch n-1, compare) is *)
(* the same, and two calls that both succeed return the same result.     *)
C22_EpochNotRevealed ==
    Called("verify_flag") =>
        LET a == call[1].args
            operations(f) == verify_flag_operations(f, a[2], a[3], a[4], a[5], now)
            result(f) == crypto_verify_flag(f, a[2], a[3], a[4], a[5], now)
        IN  \A f \in CallFlags :
                /\ operations(f) = operations(a[1])
                /\ result(f)[1] = result(a[1])[1] => result(f) = result(a[1])

----------------------------------------------------------------------------
(* The order of the steps of process_submission *)

(* The steps in the order of the code, by the position a call is at *)
StepOrder ==
    << "idle", "loaded", "rotated", "checked", "recorded", "returned" >>

(* Position p is followed by position q *)
NextStep(p, q) ==
    \E i \in 1..Len(StepOrder) :
        /\ StepOrder[i] = p
        /\ StepOrder[(i % Len(StepOrder)) + 1] = q

(* A correct submission of the user for the case is committed *)
SolvedBefore(r) ==
    \E i \in 1..Len(submissions) :
        /\ submissions[i].user_id = req[r].user_id
        /\ submissions[i].case_id = req[r].case_id
        /\ submissions[i].is_correct

(* What each step of request r may touch *)
InOrder(r) ==
    /\ req'[r].pc # req[r].pc => NextStep(req[r].pc, req'[r].pc)
    /\ req'[r].user # req[r].user => req'[r].pc \in {"loaded", "rotated", "idle"}
    /\ req[r].pc = "loaded" /\ req'[r].pc = "rotated" =>
           ~rotation_due(req'[r].user, now)
    /\ req'[r].already_solved # req[r].already_solved =>
           req'[r].pc \in {"checked", "idle"}
    /\ req'[r].is_correct # req[r].is_correct =>
           req'[r].pc \in {"recorded", "idle"}
    /\ req'[r].pending # req[r].pending =>
           \/ req'[r].pc = "recorded" /\ Len(req'[r].pending) = Len(req[r].pending) + 1
           \/ req'[r].pc = "idle"
    /\ req'[r].result # req[r].result => req'[r].pc \in {"returned", "idle"}
    /\ req'[r].pc = "returned" /\ req[r].pc = "recorded" =>
           /\ req'[r].result.flag # None <=> req[r].is_correct
           /\ req[r].is_correct =>
                  req'[r].result.flag[1] =
                      generate_flag_for_user(req[r].user_id, req[r].case_id,
                                             req[r].case.semantic_truth_hash,
                                             req[r].case.case_salt,
                                             req[r].user.flag_salt, now)

(* C23: process_submission runs rotation check, prior-solve lookup, answer *)
(* check and record, flag (only if correct), response, in this order; the  *)
(* lookup precedes the write of the attempt's record, so a first correct   *)
(* submission is not treated as already solved; the flag is minted with    *)
(* the salt as the rotation step left it.                                  *)
C23_StepsInOrder ==
    /\ [](\A r \in Reqs :
              /\ req[r].pc \in {"checked", "recorded", "returned"} /\ ~SolvedBefore(r)
                     => ~req[r].already_solved
              /\ Returned(r) /\ req[r].is_correct /\ ~SolvedBefore(r)
                     => req[r].result.points = Some(req[r].case.points))
    /\ [][\A r \in Reqs : InOrder(r)]_vars

(* A first correct submission, made with a salt rotated in the same call, *)
(* has its flag and the points of the case                                *)
C23_FirstSolveAfterRotation ==
    \E r \in Reqs :
        /\ Returned(r)
        /\ req[r].is_correct
        /\ ~SolvedBefore(r)
        /\ req[r].dirty
        /\ req[r].user.flag_salt # users[req[r].user_id].flag_salt
        /\ req[r].result.points = Some(req[r].case.points)
        /\ req[r].result.flag # None

----------------------------------------------------------------------------
(* The columns update_case may write *)

(* The digest or the salt of case c differs after this step *)
TruthChanged(c) ==
    \/ cases'[c].semantic_truth_hash # cases[c].semantic_truth_hash
    \/ cases'[c].case_salt # cases[c].case_salt

(* C24: update_case leaves semantic_truth_hash and case_salt of the case *)
(* as they were, whatever the payload; a step that changes either is an  *)
(* update_semantic_truth.                                                *)
C24_UpdateKeepsTruth ==
    [][\A c \in Cases :
          /\ \A body \in UpdatePayloads : update_case(c, body) => ~TruthChanged(c)
          /\ TruthChanged(c) => update_case_semantic_truth(c, <<"n", "o">>)]_vars

(* update_case has applied a payload that also names case_salt: the *)
(* points are the payload's, digest and salt are those of creation  *)
C24_UpdatedPointsOnly ==
    /\ cases["c1"].points = 25
    /\ cases["c1"].case_salt = token_hex(3)
    /\ cases["c1"].semantic_truth_hash = hash_semantic_truth(<<"g", "o">>)

----------------------------------------------------------------------------
(* Points per user and case *)

(* Call r has returned the points of its case *)
ReturnedPoints(r) ==
    /\ Returned(r)
    /\ req[r].result.points = Some(req[r].case.points)

(* C25: over any interleaving of process_submission calls, at most one *)
(* call per (user, case) returns the points of the case: a call that   *)
(* returns them is the only one to do so, among the calls under way    *)
(* and those whose correct submission is committed.                    *)
C25_PointsOncePerUserCase ==
    \A r \in Reqs :
        ReturnedPoints(r) =>
            /\ ~SolvedBefore(r)
            /\ \A o \in Reqs \ {r} :
                   ReturnedPoints(o) =>
                       \/ req[o].user_id # req[r].user_id
                       \/ req[o].case_id # req[r].case_id

----------------------------------------------------------------------------
(* Points per user and challenge *)

(* Rows of the user for the challenge that awarded points *)
AwardingRows(user_id, challenge_id) ==
    {i \in 1..Len(challenge_submissions) :
        /\ challenge_submissions[i].user_id = user_id
        /\ challenge_submissions[i].challenge_id = challenge_id
        /\ challenge_submissions[i].points_awarded > 0}

(* C26: over any sequence of submissions of one user to one challenge, *)
(* the points of the challenge are awarded at most once: a correct     *)
(* submission after an earlier correct one awards 0 points.            *)
C26_ChallengePointsOnce ==
    \A u \in Users, ch \in ChallengeIds :
        /\ Cardinality(AwardingRows(u, ch)) <= 1
        /\ \A i, j \in 1..Len(challenge_submissions) :
               /\ i < j
               /\ challenge_submissions[i].user_id = u
               /\ challenge_submissions[j].user_id = u
               /\ challenge_submissions[i].challenge_id = ch
               /\ challenge_submissions[j].challenge_id = ch
               /\ challenge_submissions[i].is_correct
               => challenge_submissions[j].points_awarded = 0

----------------------------------------------------------------------------
(* The message under the HMAC *)

(* C27: the message fed to the HMAC is an injective encoding of the inputs *)
(* of generate_flag: two tuples (user_id, case_id with its case salt,      *)
(* digest, user salt, window) that differ in a component give different    *)
(* messages, so no two of them give the same flag.                         *)
C27_MessageInjective ==
    Called("generate_flag") =>
        LET a == call[1].args
        IN  \A u \in CallUserIds, c \in CallCaseTexts, h \in CallHashes,
               s \in CallSalts, w \in CallWindows :
                <<u, c, h, s, w>> # a =>
                    /\ flag_message(u, c, h, s, w)
                           # flag_message(a[1], a[2], a[3], a[4], a[5])
                    /\ generate_flag(u, c, h, s, w) # call[1].result.value

----------------------------------------------------------------------------
(* The age of the salt *)

(* now - flag_salt_rotated_at of a user row, after this step *)
SaltAge(user) == now' - user.flag_salt_rotated_at

(* The step in which process_submission of request r returns *)
ReturnStep(r) == req[r].pc = "recorded" /\ req'[r].pc = "returned"

(* flag_salt_rotated_at never decreases and the salt changes only in a *)
(* step that advances it, in the row a call holds and in the table     *)
RotatedAtAdvances ==
    /\ \A u \in Users :
           /\ users'[u].flag_salt_rotated_at >= users[u].flag_salt_rotated_at
           /\ users'[u].flag_salt # users[u].flag_salt =>
                  users'[u].flag_salt_rotated_at > users[u].flag_salt_rotated_at
    /\ \A r \in Reqs :
           req[r].pc # "idle" /\ req'[r].pc # "idle" =>
               /\ req'[r].user.flag_salt_rotated_at >= req[r].user.flag_salt_rotated_at
               /\ req'[r].user.flag_salt # req[r].user.flag_salt =>
                      req'[r].user.flag_salt_rotated_at
                          > req[r].user.flag_salt_rotated_at

(* C28 as stated: right after maybe_rotate_user_salt or process_submission *)
(* returns, now - flag_salt_rotated_at is at most the rotation interval;   *)
(* flag_salt_rotated_at never decreases and the salt changes only in a     *)
(* step that also advances it.                                             *)
C28_SaltAgeBounded ==
    [][ /\ \A r \in Reqs :
               RotationStep(r) \/ ReturnStep(r) =>
                   SaltAge(req'[r].user) <= RotationInterval
        /\ RotatedAtAdvances ]_vars

(* C28: right after maybe_rotate_user_salt returns, also inside           *)
(* process_submission, now - flag_salt_rotated_at is at most the rotation *)
(* interval; from there to the return of process_submission the row the  *)
(* call holds stays as it is, so the age grows by the time that passes.   *)
(* flag_salt_rotated_at never decreases and the salt changes only in a    *)
(* step that also advances it.                                            *)
C28_SaltAgeBoundedAtCheck ==
    [][ /\ \A r \in Reqs :
               /\ RotationStep(r) => SaltAge(req'[r].user) <= RotationInterval
               /\ req[r].pc \in {"rotated", "checked", "recorded"} =>
                      req'[r].pc = "idle" \/ req'[r].user = req[r].user
        /\ RotatedAtAdvances ]_vars

(* A call has just rotated a salt older than the interval *)
C28_JustRotated ==
    \E r \in Reqs :
        /\ req[r].pc = "rotated"
        /\ req[r].dirty
        /\ req[r].user.flag_salt # users[req[r].user_id].flag_salt
        /\ req[r].user.flag_salt_rotated_at = now
        /\ now - users[req[r].user_id].flag_salt_rotated_at > RotationInterval

----------------------------------------------------------------------------
(* The rate limit *)

(* How many calls of is_allowed for key k returned True in the window of *)
(* window_size seconds that ends at t                                    *)
GrantedInWindow(k, t) ==
    Cardinality({i \in 1..Len(granted[k]) :
                    granted[k][i] > t - window_size /\ granted[k][i] <= t})

(* This step is a call of the method for key k *)
CallOf(method, k) ==
    /\ call' # None
    /\ call'[1].method = method
    /\ call'[1].args = <<k>>
    /\ <<call, requests>> # <<call', requests'>>

(* C29: for every key and every order of the callers, at most           *)
(* requests_per_minute calls of is_allowed return True within any window *)
(* of 60 seconds; a call that returns False records no timestamp, and   *)
(* get_remaining takes nothing from the quota.                          *)
C29_RateLimited ==
    /\ [](\A k \in LimiterKeys, t \in LimiterTimes :
              GrantedInWindow(k, t) <= requests_per_minute)
    /\ [][\A k \in LimiterKeys :
              /\ CallOf("is_allowed", k) /\ ~call'[1].result.value =>
                     /\ granted' = granted
                     /\ requests'[k] = live_requests(requests[k], now)
                     /\ \A o \in LimiterKeys \ {k} : requests'[o] = requests[o]
              /\ CallOf("get_remaining", k) =>
                     /\ granted' = granted
                     /\ requests'[k] = live_requests(requests[k], now)
                     /\ \A o \in LimiterKeys : 
                            over_limit(Len(live_requests(requests'[o], now)))
                                <=> over_limit(Len(live_requests(requests[o], now)))]_vars

(* A caller was refused at the limit after the window had moved on and *)
(* let a later request through                                         *)
C29_RefusedAtLimit ==
    \E u \in Users :
        LET k == <<"user:", u>>
        IN  /\ Called("is_allowed")
            /\ call[1].args = <<k>>
            /\ ~call[1].result.value
            /\ error = TooManyRequests(u)
            /\ Len(granted[k]) > requests_per_minute
            /\ GrantedInWindow(k, now) = requests_per_minute

----------------------------------------------------------------------------
(* The digest of a seeded challenge *)

(* C30: the digest stored when a challenge is seeded is the digest the   *)
(* endpoint recomputes for the same answer: a submission of exactly the  *)
(* authored answer of a seeded challenge is judged correct.              *)
C30_AuthoredAnswerCorrect ==
    /\ \A ch \in ChallengeIds :
           challenges[ch].semantic_truth_hash
               = hash_semantic_truth(strip(CHALLENGES[ch].semantic_truth))
    /\ \A i \in 1..Len(challenge_submissions) :
           LET row == challenge_submissions[i]
           IN  row.submitted_flag = CHALLENGES[row.challenge_id].semantic_truth
                   => row.is_correct

====
